---- MODULE Spec2Model ----
(***************************************************************************)
(* Model of the Greenhouse job-board scraper: URL resolution               *)
(* (parseGreenhouseUrl), normalisation (normalizeJob), content             *)
(* sanitising (decodeHtml), keyword matching (filterByKeywords), the       *)
(* listing fetch (fetchJobs) and the scrapeCompany flow of main.ts.        *)
(*                                                                         *)
(* Strings are sequences of one-character strings, so that replace(),      *)
(* match() and includes() are computed character by character as the       *)
(* JavaScript code computes them.  JavaScript values are tagged records    *)
(* [t |-> type, v |-> value].                                              *)
(***************************************************************************)
EXTENDS Integers, Sequences, FiniteSets, TLC

VARIABLES
  phase, input, output,   \* one component called on its own: stage, argument, result
  pc,                     \* where a run of scrapeCompany stands
  company,                \* companyToBeScraped
  scraper,                \* the GreenhouseScraper made by createScraperFromUrl
  reply,                  \* how axios.get settled
  fetchOutcome,           \* how fetchJobs settled
  scrapeOutcome,          \* how scrapeCompany settled
  netCalls,               \* axios.get calls issued so far
  filterCalls             \* filterByKeywords calls made so far

vars == <<phase, input, output,
          pc, company, scraper, reply, fetchOutcome, scrapeOutcome, netCalls, filterCalls>>

scrapeVars == <<pc, company, scraper, reply, fetchOutcome, scrapeOutcome, netCalls, filterCalls>>
pureVars == <<phase, input, output>>

(***************************************************************************)
(* JavaScript values                                                       *)
(***************************************************************************)
Undefined == [t |-> "undefined"]
Null == [t |-> "null"]
Str(s) == [t |-> "string", v |-> s]
Num(n) == [t |-> "number", v |-> n]
Arr(a) == [t |-> "array", v |-> a]
Obj(o) == [t |-> "object", v |-> o]

\* x == null / x == undefined: what ?. and the nullish checks test
IsNullish(x) == x.t \in {"undefined", "null"}

\* ToBoolean, as used by || and !
Truthy(x) ==
  CASE x.t \in {"undefined", "null"} -> FALSE
    [] x.t = "string" -> x.v # <<>>
    [] x.t = "number" -> x.v # 0
    [] OTHER -> TRUE

\* a || b
OrElse(a, b) == IF Truthy(a) THEN a ELSE b

(***************************************************************************)
(* Characters                                                              *)
(***************************************************************************)
LowerLetters == {"a","b","c","d","e","f","g","h","i","j","k","l","m",
                 "n","o","p","q","r","s","t","u","v","w","x","y","z"}
UpperLetters == {"A","B","C","D","E","F","G","H","I","J","K","L","M",
                 "N","O","P","Q","R","S","T","U","V","W","X","Y","Z"}
Digits == {"0","1","2","3","4","5","6","7","8","9"}

LowerOf == "A" :> "a" @@ "B" :> "b" @@ "C" :> "c" @@ "D" :> "d" @@ "E" :> "e"
        @@ "F" :> "f" @@ "G" :> "g" @@ "H" :> "h" @@ "I" :> "i" @@ "J" :> "j"
        @@ "K" :> "k" @@ "L" :> "l" @@ "M" :> "m" @@ "N" :> "n" @@ "O" :> "o"
        @@ "P" :> "p" @@ "Q" :> "q" @@ "R" :> "r" @@ "S" :> "s" @@ "T" :> "t"
        @@ "U" :> "u" @@ "V" :> "v" @@ "W" :> "w" @@ "X" :> "x" @@ "Y" :> "y"
        @@ "Z" :> "z"

LowerChar(c) == IF c \in UpperLetters THEN LowerOf[c] ELSE c

\* String.prototype.toLowerCase
toLowerCase(s) == [k \in 1..Len(s) |-> LowerChar(s[k])]

\* the regex class \w
IsWordChar(c) == c \in LowerLetters \cup UpperLetters \cup Digits \cup {"_"}

\* the regex class \s (the members that occur in the modelled texts)
IsSpace(c) == c \in {" ", "\t", "\n"}

\* s.startsWith(p, i-1), exact
StartsWithAt(s, i, p) ==
  /\ i + Len(p) - 1 <= Len(s)
  /\ \A k \in 1..Len(p) : s[i + k - 1] = p[k]

\* the same, ignoring letter case (regex flag i)
StartsWithAtCI(s, i, p) ==
  /\ i + Len(p) - 1 <= Len(s)
  /\ \A k \in 1..Len(p) : LowerChar(s[i + k - 1]) = LowerChar(p[k])

\* s.includes(p)
Includes(s, p) == \E i \in 1..(Len(s) + 1) : StartsWithAt(s, i, p)

RECURSIVE ReplaceFrom(_, _, _, _)
ReplaceFrom(s, p, r, i) ==
  IF i > Len(s) THEN <<>>
  ELSE IF StartsWithAt(s, i, p) THEN r \o ReplaceFrom(s, p, r, i + Len(p))
  ELSE <<s[i]>> \o ReplaceFrom(s, p, r, i + 1)

\* s.replace(/p/g, r) for a literal, non-empty p
ReplaceAll(s, p, r) == ReplaceFrom(s, p, r, 1)

RECURSIVE Flatten(_)
Flatten(ss) == IF ss = <<>> THEN <<>> ELSE Head(ss) \o Flatten(Tail(ss))

RECURSIVE Join(_, _)
\* Array.prototype.join
Join(ss, sep) ==
  IF ss = <<>> THEN <<>>
  ELSE IF Len(ss) = 1 THEN ss[1]
  ELSE ss[1] \o sep \o Join(Tail(ss), sep)

\* all sequences over S of length 0..n
SeqsUpTo(S, n) == UNION {[1..k -> S] : k \in 0..n}

(***************************************************************************)
(* Content sanitizer: decodeHtml                                           *)
(***************************************************************************)
ENT_LT == <<"&","l","t",";">>
ENT_GT == <<"&","g","t",";">>
ENT_AMP == <<"&","a","m","p",";">>
ENT_QUOT == <<"&","q","u","o","t",";">>
ENT_APOS == <<"&","#","3","9",";">>

RECURSIVE StripTagsFrom(_, _)
StripTagsFrom(s, i) ==
  IF i > Len(s) THEN <<>>
  ELSE IF s[i] = "<" /\ \E j \in (i + 1)..Len(s) : s[j] = ">"
       THEN LET close == CHOOSE j \in (i + 1)..Len(s) :
                           /\ s[j] = ">"
                           /\ \A k \in (i + 1)..(j - 1) : s[k] # ">"
            IN <<" ">> \o StripTagsFrom(s, close + 1)
       ELSE <<s[i]>> \o StripTagsFrom(s, i + 1)

\* .replace(/<[^>]*>/g, " ")
StripTags(s) == StripTagsFrom(s, 1)

RECURSIVE CollapseFrom(_, _)
CollapseFrom(s, i) ==
  IF i > Len(s) THEN <<>>
  ELSE IF IsSpace(s[i])
       THEN IF i > 1 /\ IsSpace(s[i - 1]) THEN CollapseFrom(s, i + 1)
            ELSE <<" ">> \o CollapseFrom(s, i + 1)
       ELSE <<s[i]>> \o CollapseFrom(s, i + 1)

\* .replace(/\s+/g, " ")
CollapseWhitespace(s) == CollapseFrom(s, 1)

RECURSIVE TrimStart(_)
TrimStart(s) == IF s # <<>> /\ IsSpace(Head(s)) THEN TrimStart(Tail(s)) ELSE s

RECURSIVE TrimEnd(_)
TrimEnd(s) ==
  IF s # <<>> /\ IsSpace(s[Len(s)]) THEN TrimEnd(SubSeq(s, 1, Len(s) - 1)) ELSE s

\* String.prototype.trim
Trim(s) == TrimEnd(TrimStart(s))

\* the entity replacements in the order of the code
DecodeEntities(s) ==
  ReplaceAll(ReplaceAll(ReplaceAll(ReplaceAll(ReplaceAll(s,
    ENT_LT, <<"<">>), ENT_GT, <<">">>), ENT_AMP, <<"&">>),
    ENT_QUOT, <<"\"">>), ENT_APOS, <<"'">>)

\* decodeHtml(html) on a string
decodeHtml(html) ==
  IF html = <<>> THEN <<>>
  ELSE Trim(CollapseWhitespace(StripTags(DecodeEntities(html))))

(***************************************************************************)
(* Job normalizer: normalizeJob                                            *)
(***************************************************************************)
DigitChars == <<"0","1","2","3","4","5","6","7","8","9">>

RECURSIVE NumToString(_)
\* Number.prototype.toString for a non-negative integer
NumToString(n) ==
  IF n < 10 THEN <<DigitChars[n + 1]>>
  ELSE NumToString(n \div 10) \o <<DigitChars[(n % 10) + 1]>>

\* x?.toString() for a number or a string
OptToString(x) ==
  IF IsNullish(x) THEN Undefined
  ELSE IF x.t = "number" THEN Str(NumToString(x.v))
  ELSE x

\* x?.name
OptName(x) == IF IsNullish(x) THEN Undefined ELSE x.v.name

\* xs?.map((d) => d.name)
OptMapName(xs) ==
  IF IsNullish(xs) THEN Undefined
  ELSE Arr([k \in 1..Len(xs.v) |-> xs.v[k].v.name])

REMOTE == <<"R","e","m","o","t","e">>
GREENHOUSE == <<"g","r","e","e","n","h","o","u","s","e">>

\* new Date().toISOString(): the timestamp of the clock reading now
toISOString(now) == Str(<<"T">> \o NumToString(now))

normalizeJob(job, companyToken, now) ==
  [externalId   |-> OptToString(job.id),
   title        |-> job.title,
   absoluteUrl  |-> job.absolute_url,
   applyUrl     |-> job.absolute_url,
   location     |-> OrElse(OptName(job.location), Str(REMOTE)),
   departments  |-> OrElse(OptMapName(job.departments), Arr(<<>>)),
   offices      |-> OrElse(OptMapName(job.offices), Arr(<<>>)),
   content      |-> OrElse(job.content, Str(<<>>)),
   htmlContent  |-> OrElse(job.content, Str(<<>>)),
   updatedAt    |-> job.updated_at,
   metadata     |-> OrElse(job.metadata, Arr(<<>>)),
   questions    |-> OrElse(job.questions, Arr(<<>>)),
   scrapedAt    |-> toISOString(now),
   source       |-> Str(GREENHOUSE),
   companyToken |-> Str(companyToken)]

NormalizedFields == {"externalId", "title", "absoluteUrl", "applyUrl", "location",
                     "departments", "offices", "content", "htmlContent", "updatedAt",
                     "metadata", "questions", "scrapedAt", "source", "companyToken"}

(***************************************************************************)
(* Keyword matcher: the regular expression built by filterByKeywords       *)
(***************************************************************************)
\* the character class of kw.replace(/[.*+?^${}()|[\]\\]/g, "\\$&")
RegexSpecial == {".", "*", "+", "?", "^", "$", "{", "}", "(", ")", "|", "[", "]", "\\"}

\* variant: the escape class lacks "."
EscapeKeywordDotUnescaped(kw) ==
  Flatten([k \in 1..Len(kw) |->
             IF kw[k] \in RegexSpecial \ {"."} THEN <<"\\", kw[k]>> ELSE <<kw[k]>>])

\* kw.replace(/[.*+?^${}()|[\]\\]/g, "\\$&")
EscapeKeyword(kw) ==
  Flatten([k \in 1..Len(kw) |->
             IF kw[k] \in RegexSpecial THEN <<"\\", kw[k]>> ELSE <<kw[k]>>])

\* keywords.map(escape).join("|")
EscapedKeywords(keywords) ==
  Join([k \in 1..Len(keywords) |-> EscapeKeyword(keywords[k])], <<"|">>)

\* the source text `\\b(${escapedKeywords})\\b`
KeywordRegexSource(keywords) ==
  <<"\\", "b", "(">> \o EscapedKeywords(keywords) \o <<")", "\\", "b">>

(* The pattern language of RegExp, for the constructs a keyword can produce: *)
(* literals, escapes, ".", the quantifiers * + ?, groups, alternation, \b,  *)
(* ^ and $.  A token is [k |-> kind, c |-> character].                      *)
Tok(k, c) == [k |-> k, c |-> c]

RECURSIVE TokenizeFrom(_, _)
TokenizeFrom(src, i) ==
  IF i > Len(src) THEN <<>>
  ELSE IF src[i] = "\\"
       THEN IF i = Len(src) THEN <<Tok("bad", "\\")>>
            ELSE IF src[i + 1] = "b"
                 THEN <<Tok("wordb", "b")>> \o TokenizeFrom(src, i + 2)
                 ELSE <<Tok("lit", src[i + 1])>> \o TokenizeFrom(src, i + 2)
       ELSE LET c == src[i]
                t == CASE c = "." -> Tok("any", c)
                       [] c \in {"*", "+", "?"} -> Tok("quant", c)
                       [] c = "|" -> Tok("alt", c)
                       [] c = "(" -> Tok("open", c)
                       [] c = ")" -> Tok("close", c)
                       [] c = "^" -> Tok("bol", c)
                       [] c = "$" -> Tok("eol", c)
                       [] c = "[" -> Tok("bad", c)   \* no keyword here has "]": unterminated class
                       [] OTHER -> Tok("lit", c)
            IN <<t>> \o TokenizeFrom(src, i + 1)

Tokenize(src) == TokenizeFrom(src, 1)

\* nesting depth after the first n tokens
RECURSIVE Depth(_, _)
Depth(toks, n) ==
  IF n = 0 THEN 0
  ELSE Depth(toks, n - 1)
       + (IF toks[n].k = "open" THEN 1 ELSE IF toks[n].k = "close" THEN -1 ELSE 0)

\* what new RegExp(src) rejects with a SyntaxError
SyntaxError(toks) ==
  \/ \E n \in 1..Len(toks) : toks[n].k = "bad"
  \/ \E n \in 1..Len(toks) : Depth(toks, n) < 0
  \/ Depth(toks, Len(toks)) # 0
  \/ \E n \in 1..Len(toks) :
        /\ toks[n].k = "quant"
        /\ \/ n = 1
           \/ toks[n - 1].k \in {"open", "alt", "wordb", "bol", "eol"}
           \/ /\ toks[n - 1].k = "quant"
              /\ \/ toks[n].c # "?"
                 \/ n > 2 /\ toks[n - 2].k = "quant"

\* a word boundary (\b) lies before position p of text
WordBoundary(text, p) ==
  LET before == p > 1 /\ IsWordChar(text[p - 1])
      after == p <= Len(text) /\ IsWordChar(text[p])
  IN before # after

\* the token that closes the group opened at token a
MatchClose(toks, a) ==
  CHOOSE j \in (a + 1)..Len(toks) :
    /\ Depth(toks, j) = Depth(toks, a) - 1
    /\ \A k \in (a + 1)..(j - 1) : Depth(toks, k) >= Depth(toks, a)

RECURSIVE Ends(_, _, _, _, _), SeqEnds(_, _, _, _, _),
          AtomEnds(_, _, _, _, _), RepeatEnds(_, _, _, _, _)

\* the positions where a match of the alternation toks[lo..hi] can end when
\* it starts at one of the positions P
Ends(toks, lo, hi, text, P) ==
  LET level == Depth(toks, lo - 1)
      bars == {n \in lo..hi : toks[n].k = "alt" /\ Depth(toks, n) = level}
      starts == {lo} \cup {n + 1 : n \in bars}
      stop(a) == IF \E n \in bars : n >= a
                 THEN (CHOOSE n \in bars : n >= a /\ \A m \in bars : m >= a => n <= m) - 1
                 ELSE hi
  IN UNION {SeqEnds(toks, a, stop(a), text, P) : a \in starts}

\* the same for the concatenation toks[a..b]
SeqEnds(toks, a, b, text, P) ==
  IF a > b THEN P
  ELSE LET e == IF toks[a].k = "open" THEN MatchClose(toks, a) ELSE a
           hasQ == e < b /\ toks[e + 1].k = "quant"
           q == IF hasQ THEN toks[e + 1].c ELSE "1"
           lazy == hasQ /\ e + 2 <= b /\ toks[e + 2].k = "quant"
           next == e + 1 + (IF hasQ THEN 1 ELSE 0) + (IF lazy THEN 1 ELSE 0)
           reached == CASE q = "1" -> AtomEnds(toks, a, e, text, P)
                        [] q = "?" -> P \cup AtomEnds(toks, a, e, text, P)
                        [] q = "+" -> RepeatEnds(toks, a, e, text, AtomEnds(toks, a, e, text, P))
                        [] q = "*" -> RepeatEnds(toks, a, e, text, P)
       IN SeqEnds(toks, next, b, text, reached)

\* zero or more further repetitions of the atom toks[a..e]
RepeatEnds(toks, a, e, text, S) ==
  LET more == S \cup AtomEnds(toks, a, e, text, S)
  IN IF more = S THEN S ELSE RepeatEnds(toks, a, e, text, more)

\* one occurrence of the atom toks[a..e]
AtomEnds(toks, a, e, text, P) ==
  CASE toks[a].k = "lit" ->
         {p + 1 : p \in {r \in P : r <= Len(text) /\ LowerChar(text[r]) = LowerChar(toks[a].c)}}
    [] toks[a].k = "any" ->
         {p + 1 : p \in {r \in P : r <= Len(text) /\ text[r] # "\n"}}
    [] toks[a].k = "wordb" -> {p \in P : WordBoundary(text, p)}
    [] toks[a].k = "bol" -> {p \in P : p = 1}
    [] toks[a].k = "eol" -> {p \in P : p = Len(text) + 1}
    [] toks[a].k = "open" -> Ends(toks, a + 1, e - 1, text, P)
    [] OTHER -> {}

\* regex.test(text) with the flag i
RegexTest(toks, text) ==
  \E i \in 1..(Len(text) + 1) : Ends(toks, 1, Len(toks), text, {i}) # {}

(***************************************************************************)
(* Keyword matcher: filterByKeywords                                       *)
(***************************************************************************)
\* the text of an array element in Array.prototype.join
ElementText(x) == IF IsNullish(x) THEN <<>> ELSE x.v

\* (job.departments || []).join(" ")
DepartmentsText(job) ==
  LET ds == OrElse(job.departments, Arr(<<>>)).v
  IN Join([k \in 1..Len(ds) |-> ElementText(ds[k])], <<" ">>)

\* `${job.title || ""} ${cleanContent} ${departmentsText}`.toLowerCase()
SearchText(job) ==
  toLowerCase(OrElse(job.title, Str(<<>>)).v \o <<" ">>
              \o decodeHtml(OrElse(job.content, Str(<<>>)).v) \o <<" ">>
              \o DepartmentsText(job))

Returned(v) == [t |-> "return", v |-> v]
Thrown(e) == [t |-> "throw", v |-> e]

SelectJobs(jobs, toks) == SelectSeq(jobs, LAMBDA job : RegexTest(toks, SearchText(job)))

\* variant: an empty keyword array is not passed through but compiled
filterByKeywordsEmptyCompiled(jobs, keywords) ==
  IF ~Truthy(keywords) THEN Returned(jobs)
  ELSE LET toks == Tokenize(KeywordRegexSource(keywords.v))
       IN IF SyntaxError(toks) THEN Thrown([name |-> "SyntaxError"])
          ELSE Returned(SelectJobs(jobs, toks))

filterByKeywords(jobs, keywords) ==
  IF ~Truthy(keywords) \/ Len(keywords.v) = 0 THEN Returned(jobs)
  ELSE LET toks == Tokenize(KeywordRegexSource(keywords.v))
       IN IF SyntaxError(toks) THEN Thrown([name |-> "SyntaxError"])
          ELSE Returned(SelectJobs(jobs, toks))

(***************************************************************************)
(* URL resolver: parseGreenhouseUrl                                        *)
(***************************************************************************)
\* the literal prefixes of the four patterns, each followed by ([^\/\?]+)
PAT_BARE == <<"g","r","e","e","n","h","o","u","s","e",".","i","o","/">>
PAT_BOARDS == <<"b","o","a","r","d","s",".","g","r","e","e","n","h","o","u","s","e",".","i","o","/">>
PAT_JOB_BOARDS == <<"j","o","b","-","b","o","a","r","d","s",".","g","r","e","e","n","h","o","u","s","e",".","i","o","/">>
PAT_JOB_BOARDS_EU == <<"j","o","b","-","b","o","a","r","d","s",".","e","u",".","g","r","e","e","n","h","o","u","s","e",".","i","o","/">>

patterns == <<PAT_BARE, PAT_BOARDS, PAT_JOB_BOARDS, PAT_JOB_BOARDS_EU>>

EU_HOST_SUFFIX == <<".","e","u",".","g","r","e","e","n","h","o","u","s","e",".","i","o">>

\* the pattern matches with its literal prefix at position i: prefix, then at
\* least one character other than "/" and "?"
PatternMatchesAt(url, i, prefix) ==
  /\ StartsWithAtCI(url, i, prefix)
  /\ i + Len(prefix) <= Len(url)
  /\ url[i + Len(prefix)] \notin {"/", "?"}

PatternMatches(url, prefix) == \E i \in 1..Len(url) : PatternMatchesAt(url, i, prefix)

\* match[1] of url.match(pattern): the capture of the leftmost match, greedy
Capture(url, prefix) ==
  LET i == CHOOSE k \in 1..Len(url) :
             /\ PatternMatchesAt(url, k, prefix)
             /\ \A m \in 1..(k - 1) : ~PatternMatchesAt(url, m, prefix)
      from == i + Len(prefix)
      stops == {k \in from..Len(url) : url[k] \in {"/", "?"}}
      to == IF stops = {} THEN Len(url)
            ELSE (CHOOSE k \in stops : \A m \in stops : k <= m) - 1
  IN SubSeq(url, from, to)

US == <<"u","s">>
EU == <<"e","u">>

parseGreenhouseUrl(url) ==
  IF \E n \in 1..Len(patterns) : PatternMatches(url, patterns[n])
  THEN LET n == CHOOSE k \in 1..Len(patterns) :
                  /\ PatternMatches(url, patterns[k])
                  /\ \A m \in 1..(k - 1) : ~PatternMatches(url, patterns[m])
           region == IF Includes(url, EU_HOST_SUFFIX) THEN EU ELSE US
       IN Obj([companyToken |-> Capture(url, patterns[n]), region |-> region])
  ELSE Null

COULD_NOT_PARSE == <<"C","o","u","l","d"," ","n","o","t"," ","p","a","r","s","e"," ","G","r","e","e","n","h","o","u","s","e"," ","U","R","L",":"," ">>

\* createScraperFromUrl(url): the new scraper, or the thrown Error
createScraperFromUrl(url) ==
  LET parsed == parseGreenhouseUrl(url)
  IN IF ~Truthy(parsed)
     THEN Thrown([name |-> "Error", message |-> COULD_NOT_PARSE \o url])
     ELSE Returned([companyToken |-> parsed.v.companyToken])

(***************************************************************************)
(* Listing fetch: fetchJobs                                                *)
(***************************************************************************)
NOT_FOUND_PREFIX == <<"C","o","m","p","a","n","y"," ","t","o","k","e","n"," ","\"">>
NOT_FOUND_SUFFIX == <<"\""," ","n","o","t"," ","f","o","u","n","d"," ","i","n"," ","G","r","e","e","n","h","o","u","s","e">>

\* a TypeError raised by the body; it has no response property
TypeError == [name |-> "TypeError", response |-> Undefined]

\* variant: any HTTP error status is taken for not-found
IsNotFoundAnyStatus(error) == ~IsNullish(error.response)

\* error.response?.status === 404
IsNotFound(error) ==
  /\ ~IsNullish(error.response)
  /\ error.response.v.status = Num(404)

\* variant: no default for a missing jobs array
ListingJobsNoDefault(data) == data.v.jobs

\* response.data.jobs || []   (data is an object here)
ListingJobs(data) == OrElse(data.v.jobs, Arr(<<>>))

\* the try block of fetchJobs once axios.get resolved with the body data;
\* times[k] is the clock reading when job k is normalised
fetchJobsTry(self, data, times) ==
  IF IsNullish(data) THEN Thrown(TypeError)                \* data.jobs of null
  ELSE LET jobs == ListingJobs(data)
       IN IF jobs.t # "array" THEN Thrown(TypeError)       \* jobs.map is not a function
          ELSE IF \E k \in 1..Len(jobs.v) : IsNullish(jobs.v[k])
               THEN Thrown(TypeError)                      \* job.id of null
               ELSE Returned([k \in 1..Len(jobs.v) |->
                                normalizeJob(jobs.v[k].v, self.companyToken, times[k])])

\* the catch block of fetchJobs
fetchJobsCatch(self, error) ==
  IF IsNotFound(error)
  THEN Thrown([name |-> "Error", response |-> Undefined,
               message |-> NOT_FOUND_PREFIX \o self.companyToken \o NOT_FOUND_SUFFIX])
  ELSE Thrown(error)

\* fetchJobs after axios.get resolved
fetchJobsResolved(self, data, times) ==
  LET r == fetchJobsTry(self, data, times)
  IN IF r.t = "throw" THEN fetchJobsCatch(self, r.v) ELSE r

\* fetchJobs after axios.get rejected
fetchJobsRejected(self, error) == fetchJobsCatch(self, error)

(***************************************************************************)
(* Inputs                                                                  *)
(***************************************************************************)
MaxChunks == 3
MaxJobs == 2
MaxKeywords == 2
MaxListing == 2
MaxClock == 1

Clock == 0..MaxClock

\* pieces of rich text the sanitizer inputs are built from
Chunks == {ENT_AMP, ENT_LT, ENT_GT, <<"l","t",";">>, <<"g","t",";">>,
           <<"<">>, <<">">>, <<"b">>, <<" ">>}

HtmlInputs == {Flatten(cs) : cs \in SeqsUpTo(Chunks, MaxChunks)}

\* a vendor record; an absent field reads as undefined
RawJob(id, title, url, location, departments, offices, content, updated, metadata, questions) ==
  [id |-> id, title |-> title, absolute_url |-> url, location |-> location,
   departments |-> departments, offices |-> offices, content |-> content,
   updated_at |-> updated, metadata |-> metadata, questions |-> questions]

Named(n) == Obj([name |-> Str(n)])

EmptyRecord ==
  RawJob(Undefined, Undefined, Undefined, Undefined, Undefined,
         Undefined, Undefined, Undefined, Undefined, Undefined)

T_UI == <<"u","i">>
T_PUNE == <<"P","u","n","e">>
T_URL == <<"h","t","t","p","s",":","/","/","x","/","1">>
T_DATE == <<"2","0","2","4","-","0","1","-","0","1">>
T_BUILD == <<"b","u","i","l","d">>
T_UI_DEV == <<"U","I"," ","d","e","v">>
T_DEV == <<"d","e","v">>
T_CPLUS_DEV == <<"c","+"," ","d","e","v">>
T_AXB == <<"a","x","b">>
T_A_DOT_B == <<"a",".","b">>
T_BOLD_UI == <<"<","b",">","u","i","<","/","b",">">>
T_ACME == <<"a","c","m","e">>

\* well-formed vendor records: every optional field present or absent
RawJobs ==
  {RawJob(id, title, url, location, departments, offices, content, updated, metadata, questions) :
     id \in {Undefined, Num(42), Str(<<"7">>)},
     title \in {Undefined, Str(T_UI_DEV)},
     url \in {Undefined, Str(T_URL)},
     location \in {Undefined, Named(T_PUNE)},
     departments \in {Undefined, Arr(<<Named(T_UI)>>)},
     offices \in {Undefined, Arr(<<Named(T_PUNE)>>)},
     content \in {Undefined, Str(T_BOLD_UI)},
     updated \in {Undefined, Str(T_DATE)},
     metadata \in {Undefined, Arr(<<>>)},
     questions \in {Undefined, Arr(<<>>)}}

\* a posting with the three fields the matcher reads
Posting(title, content, departments) ==
  normalizeJob([EmptyRecord EXCEPT !.id = Num(1), !.title = Str(title),
                  !.content = Str(content),
                  !.departments = Arr([k \in 1..Len(departments) |-> Named(departments[k])])],
               T_ACME, 0)

Postings == {Posting(T_BUILD, <<>>, <<>>),
             Posting(T_UI_DEV, <<>>, <<>>),
             Posting(T_DEV, T_BOLD_UI, <<>>),
             Posting(T_DEV, <<>>, <<T_UI>>),
             Posting(T_CPLUS_DEV, <<>>, <<>>),
             Posting(T_AXB, <<>>, <<>>),
             Posting(T_A_DOT_B, <<>>, <<>>),
             normalizeJob(EmptyRecord, T_ACME, 0)}

KW_CPLUS == <<"c","+">>
KW_A_DOT_B == <<"a",".","b">>
KW_PAREN_X == <<"(","x">>

Keywords == {T_UI, KW_CPLUS, KW_A_DOT_B, KW_PAREN_X}

KeywordLists == {Arr(ks) : ks \in SeqsUpTo(Keywords, MaxKeywords)} \cup {Undefined, Null}

\* careers-page URLs: scheme, host, optional first path segment, further
\* segments, query string, fragment
HTTPS == <<"h","t","t","p","s",":","/","/">>
H_BARE == <<"g","r","e","e","n","h","o","u","s","e",".","i","o">>
H_BOARDS == <<"b","o","a","r","d","s",".","g","r","e","e","n","h","o","u","s","e",".","i","o">>
H_JOB_BOARDS == <<"j","o","b","-","b","o","a","r","d","s",".","g","r","e","e","n","h","o","u","s","e",".","i","o">>
H_JOB_BOARDS_EU == <<"j","o","b","-","b","o","a","r","d","s",".","e","u",".","g","r","e","e","n","h","o","u","s","e",".","i","o">>
H_BOARDS_MIXED == <<"B","o","a","r","d","s",".","G","r","e","e","n","h","o","u","s","e",".","i","o">>
H_JOB_BOARDS_EU_UPPER == <<"J","O","B","-","B","O","A","R","D","S",".","E","U",".","G","R","E","E","N","H","O","U","S","E",".","I","O">>
H_EXAMPLE == <<"e","x","a","m","p","l","e",".","c","o","m">>
SEG_CAREERS == <<"c","a","r","e","e","r","s">>
SEG_GROWW == <<"g","r","o","w","w">>
REST_JOBS == <<"/","j","o","b","s","/","1","2","3">>
QUERY_JID == <<"?","g","h","_","j","i","d","=","1">>
FRAGMENT_APP == <<"#","a","p","p">>

VendorHosts == {H_BARE, H_BOARDS, H_JOB_BOARDS, H_JOB_BOARDS_EU}
Hosts == VendorHosts \cup {H_BOARDS_MIXED, H_JOB_BOARDS_EU_UPPER, H_EXAMPLE}

UrlParts ==
  {p \in [host : Hosts, first : {<<>>, T_ACME, SEG_CAREERS}, rest : {<<>>, REST_JOBS},
          query : {<<>>, QUERY_JID}, fragment : {<<>>, FRAGMENT_APP}] :
     p.first = <<>> => p.rest = <<>>}

UrlOf(p) ==
  HTTPS \o p.host \o (IF p.first = <<>> THEN <<>> ELSE <<"/">> \o p.first)
        \o p.rest \o p.query \o p.fragment

\* the companies a run of scrapeCompany is given
ScrapeUrls ==
  {UrlOf([host |-> H_JOB_BOARDS_EU, first |-> SEG_GROWW, rest |-> <<>>,
          query |-> <<>>, fragment |-> <<>>]),
   UrlOf([host |-> H_BOARDS, first |-> T_ACME, rest |-> REST_JOBS,
          query |-> <<>>, fragment |-> <<>>]),
   UrlOf([host |-> H_EXAMPLE, first |-> SEG_CAREERS, rest |-> <<>>,
          query |-> <<>>, fragment |-> <<>>]),
   UrlOf([host |-> H_BOARDS, first |-> <<>>, rest |-> <<>>,
          query |-> <<>>, fragment |-> <<>>])}

ScrapeKeywords == {Undefined, Arr(<<>>), Arr(<<T_UI>>), Arr(<<KW_CPLUS, T_UI>>)}

Companies == [companyCareersPage : ScrapeUrls, keywords : ScrapeKeywords]

\* the records of a listing body; null stands for a malformed entry
ListedRecords ==
  {Obj(EmptyRecord),
   Obj([EmptyRecord EXCEPT !.id = Num(42), !.title = Str(T_UI_DEV)]),
   Obj([EmptyRecord EXCEPT !.id = Str(<<"7">>), !.title = Str(T_BUILD),
                           !.content = Str(T_BOLD_UI)]),
   Null}

\* response.data of a resolved listing call
Bodies ==
  {Null} \cup {Obj([jobs |-> j]) :
                 j \in {Undefined, Null, Str(T_DEV)}
                       \cup {Arr(js) : js \in SeqsUpTo(ListedRecords, MaxListing)}}

\* what a rejected axios.get throws
AxiosError(code, response) == [name |-> "AxiosError", code |-> code, response |-> response]

TransportFailures ==
  {AxiosError("ERR_BAD_REQUEST", Obj([status |-> Num(404)])),
   AxiosError("ERR_BAD_RESPONSE", Obj([status |-> Num(500)])),
   AxiosError("ECONNABORTED", Undefined),
   AxiosError("ERR_NETWORK", Undefined)}

\* clock readings of successive normalizeJob calls
Readings == {ts \in [1..MaxListing -> Clock] :
               \A a, b \in 1..MaxListing : a <= b => ts[a] <= ts[b]}

(***************************************************************************)
(* Components called on their own                                          *)
(***************************************************************************)
NoScrape ==
  /\ pc = "idle" /\ company = Null /\ scraper = Null /\ reply = Null
  /\ fetchOutcome = Null /\ scrapeOutcome = Null /\ netCalls = 0 /\ filterCalls = 0

InitSanitize == phase = "html" /\ input \in HtmlInputs /\ output = Null /\ NoScrape

\* decodeHtml(html)
Sanitize ==
  /\ phase = "html"
  /\ output' = [once |-> decodeHtml(input), twice |-> Null]
  /\ phase' = "once"
  /\ UNCHANGED <<input, scrapeVars>>

\* decodeHtml applied to its own result
Resanitize ==
  /\ phase = "once"
  /\ output' = [output EXCEPT !.twice = decodeHtml(output.once)]
  /\ phase' = "twice"
  /\ UNCHANGED <<input, scrapeVars>>

NextSanitize == Sanitize \/ Resanitize

SpecSanitize == InitSanitize /\ [][NextSanitize]_vars

InitNormalize ==
  /\ phase = "raw"
  /\ input \in [job : RawJobs, companyToken : {T_ACME}, now : Clock]
  /\ output = Null
  /\ NoScrape

NormalizeJob ==
  /\ phase = "raw"
  /\ output' = normalizeJob(input.job, input.companyToken, input.now)
  /\ phase' = "normalized"
  /\ UNCHANGED <<input, scrapeVars>>

NextNormalize == NormalizeJob

SpecNormalize == InitNormalize /\ [][NextNormalize]_vars

InitFilter ==
  /\ phase = "postings"
  /\ input \in [jobs : SeqsUpTo(Postings, MaxJobs), keywords : KeywordLists]
  /\ output = Null
  /\ NoScrape

FilterByKeywords ==
  /\ phase = "postings"
  /\ output' = filterByKeywords(input.jobs, input.keywords)
  /\ phase' = "filtered"
  /\ UNCHANGED <<input, scrapeVars>>

NextFilter == FilterByKeywords

SpecFilter == InitFilter /\ [][NextFilter]_vars

InitUrl ==
  /\ phase = "url"
  /\ input \in {[parts |-> p, url |-> UrlOf(p)] : p \in UrlParts}
  /\ output = Null
  /\ NoScrape

ParseGreenhouseUrl ==
  /\ phase = "url"
  /\ output' = parseGreenhouseUrl(input.url)
  /\ phase' = "parsed"
  /\ UNCHANGED <<input, scrapeVars>>

NextUrl == ParseGreenhouseUrl

SpecUrl == InitUrl /\ [][NextUrl]_vars

(***************************************************************************)
(* scrapeCompany                                                           *)
(***************************************************************************)
Init ==
  /\ phase = "idle" /\ input = Null /\ output = Null
  /\ pc = "start"
  /\ company \in Companies
  /\ scraper = Null /\ reply = Null /\ fetchOutcome = Null /\ scrapeOutcome = Null
  /\ netCalls = 0 /\ filterCalls = 0

\* scrapeCompany up to its await: createScraperFromUrl, then fetchJobs up to
\* its own await on axios.get
ScrapeCompanyStart ==
  /\ pc = "start"
  /\ LET made == createScraperFromUrl(company.companyCareersPage)
     IN IF made.t = "throw"
        THEN /\ scrapeOutcome' = made
             /\ pc' = "failed"
             /\ UNCHANGED <<scraper, netCalls>>
        ELSE /\ scraper' = made.v
             /\ netCalls' = netCalls + 1
             /\ pc' = "awaiting"
             /\ UNCHANGED scrapeOutcome
  /\ UNCHANGED <<pureVars, company, reply, fetchOutcome, filterCalls>>

\* axios.get resolves; fetchJobs runs to its end
AxiosResolve ==
  /\ pc = "awaiting"
  /\ \E data \in Bodies, times \in Readings :
       /\ reply' = Returned(data)
       /\ fetchOutcome' = fetchJobsResolved(scraper, data, times)
  /\ pc' = "fetched"
  /\ UNCHANGED <<pureVars, company, scraper, scrapeOutcome, netCalls, filterCalls>>

\* variant: a rejected listing call is issued again, up to three calls
AxiosRejectRetried ==
  /\ pc = "awaiting"
  /\ \E error \in TransportFailures :
       /\ reply' = Thrown(error)
       /\ fetchOutcome' = fetchJobsRejected(scraper, error)
  /\ IF netCalls < 3
     THEN pc' = "awaiting" /\ netCalls' = netCalls + 1
     ELSE pc' = "fetched" /\ UNCHANGED netCalls
  /\ UNCHANGED <<pureVars, company, scraper, scrapeOutcome, filterCalls>>

\* axios.get rejects; fetchJobs runs its catch block
AxiosReject ==
  /\ pc = "awaiting"
  /\ \E error \in TransportFailures :
       /\ reply' = Thrown(error)
       /\ fetchOutcome' = fetchJobsRejected(scraper, error)
  /\ pc' = "fetched"
  /\ UNCHANGED <<pureVars, company, scraper, scrapeOutcome, netCalls, filterCalls>>

\* what scrapeCompany returns for a non-empty jobList
ScrapeSummary(jobList, filterdJobs) ==
  [jobs |-> jobList, matchedJobs |-> filterdJobs,
   totalMatchedJobs |-> Len(filterdJobs), totalJobs |-> Len(jobList)]

EmptySummary == [jobs |-> <<>>, matchedJobs |-> <<>>, totalMatchedJobs |-> 0, totalJobs |-> 0]

\* scrapeCompany after its await
ScrapeCompanyResume ==
  /\ pc = "fetched"
  /\ IF fetchOutcome.t = "throw"
     THEN /\ scrapeOutcome' = fetchOutcome
          /\ pc' = "failed"
          /\ UNCHANGED filterCalls
     ELSE IF Len(fetchOutcome.v) = 0
     THEN /\ scrapeOutcome' = Returned(EmptySummary)
          /\ pc' = "done"
          /\ UNCHANGED filterCalls
     ELSE LET filterdJobs == filterByKeywords(fetchOutcome.v, company.keywords)
          IN /\ filterCalls' = filterCalls + 1
             /\ IF filterdJobs.t = "throw"
                THEN scrapeOutcome' = filterdJobs /\ pc' = "failed"
                ELSE /\ scrapeOutcome' = Returned(ScrapeSummary(fetchOutcome.v, filterdJobs.v))
                     /\ pc' = "done"
  /\ UNCHANGED <<pureVars, company, scraper, reply, fetchOutcome, netCalls>>

Next == ScrapeCompanyStart \/ AxiosResolve \/ AxiosReject \/ ScrapeCompanyResume

Spec == Init /\ [][Next]_vars

(***************************************************************************)
(* Properties                                                              *)
(***************************************************************************)
KeywordsGiven(keywords) == Truthy(keywords) /\ Len(keywords.v) > 0

\* kw occurs in text, letter case ignored
ContainsLiteral(text, kw) == \E i \in 1..Len(text) : StartsWithAtCI(text, i, kw)

\* kw occurs in text as a whole word: no word character touches the occurrence
ContainsWholeWord(text, kw) ==
  \E i \in 1..Len(text) :
    /\ StartsWithAtCI(text, i, kw)
    /\ i = 1 \/ ~IsWordChar(text[i - 1])
    /\ i + Len(kw) > Len(text) \/ ~IsWordChar(text[i + Len(kw)])

\* C1: the content sanitizer is idempotent: sanitizing sanitized text gives
\* the same text, doubly-encoded entities included.
C1_SanitizerIdempotent == phase = "twice" => output.twice = output.once

\* C2: for every well-formed raw record, whichever optional fields are absent,
\* every field of the normalized job has a defined value.
C2_EveryFieldDefined ==
  phase = "normalized" => \A f \in NormalizedFields : output[f].t # "undefined"

\* C3: for a non-empty keyword list, filterByKeywords returns exactly the jobs
\* whose searchable text contains some keyword as a whole word, letter case
\* ignored, in input order.
C3_ExactlyWholeWordMatches ==
  (phase = "filtered" /\ KeywordsGiven(input.keywords)) =>
    output = Returned(SelectSeq(input.jobs,
               LAMBDA job : \E k \in 1..Len(input.keywords.v) :
                              ContainsWholeWord(SearchText(job), input.keywords.v[k])))

\* C4: with keywords that contain regex metacharacters filterByKeywords never
\* throws, and every job it selects contains the literal characters of some
\* keyword, letter case ignored.
C4_MetacharactersLiteral ==
  (phase = "filtered" /\ KeywordsGiven(input.keywords)) =>
    /\ output.t = "return"
    /\ \A n \in 1..Len(output.v) :
         \E k \in 1..Len(input.keywords.v) :
           ContainsLiteral(SearchText(output.v[n]), input.keywords.v[k])

C4_Witness ==
  /\ phase = "filtered"
  /\ input.keywords = Arr(<<KW_A_DOT_B, KW_PAREN_X>>)
  /\ input.jobs = <<Posting(T_AXB, <<>>, <<>>), Posting(T_A_DOT_B, <<>>, <<>>)>>
  /\ output = Returned(<<Posting(T_A_DOT_B, <<>>, <<>>)>>)

\* C5: with an empty or absent keyword list filterByKeywords returns exactly
\* the input sequence.
C5_EmptyKeywordsPassThrough ==
  (phase = "filtered" /\ ~KeywordsGiven(input.keywords)) => output = Returned(input.jobs)

C5_Witness ==
  /\ phase = "filtered"
  /\ input.keywords = Arr(<<>>)
  /\ input.jobs = <<normalizeJob(EmptyRecord, T_ACME, 0), Posting(T_BUILD, <<>>, <<>>)>>
  /\ output = Returned(input.jobs)

\* the URL has one of the four recognized shapes: a vendor host, in any
\* letter case, and a first path segment
RecognizedShape(parts) == toLowerCase(parts.host) \in VendorHosts /\ parts.first # <<>>

\* C6: parseGreenhouseUrl gives the first path segment as companyToken for
\* every URL of the four shapes, whatever follows the segment (path, query,
\* fragment), and null for every other URL.
C6_TokenIsFirstSegment ==
  phase = "parsed" =>
    IF RecognizedShape(input.parts)
    THEN output.t = "object" /\ output.v.companyToken = input.parts.first
    ELSE output = Null

\* C9: for a recognized URL the region is "eu" exactly when the EU host is in
\* the URL, in any letter case the patterns accept.
C9_RegionFollowsEuHost ==
  (phase = "parsed" /\ output.t = "object") =>
    output.v.region = (IF ContainsLiteral(input.url, H_JOB_BOARDS_EU) THEN EU ELSE US)

\* the listing call was answered 404
Replied404 ==
  /\ reply.t = "throw"
  /\ reply.v.response.t = "object"
  /\ reply.v.response.v.status = Num(404)

\* the listing call succeeded with a body the code cannot read
RepliedMalformed ==
  /\ reply.t = "return"
  /\ \/ reply.v.t = "null"
     \/ /\ reply.v.v.jobs.t = "string"
     \/ /\ reply.v.v.jobs.t = "array"
        /\ \E k \in 1..Len(reply.v.v.jobs.v) : reply.v.v.jobs.v[k].t = "null"

RepliedZeroJobs ==
  /\ reply.t = "return"
  /\ reply.v.t = "object"
  /\ \/ reply.v.v.jobs.t \in {"undefined", "null"}
     \/ reply.v.v.jobs.t = "array" /\ Len(reply.v.v.jobs.v) = 0

\* C8: a listing with zero jobs makes fetchJobs return an empty sequence,
\* filterByKeywords on it returns an empty sequence for any keywords, and
\* scrapeCompany reports empty lists and zero totals.
C8_ZeroJobsEndToEnd ==
  (pc \in {"fetched", "failed", "done"} /\ RepliedZeroJobs) =>
    /\ fetchOutcome = Returned(<<>>)
    /\ \A keywords \in KeywordLists \cup {company.keywords} :
         filterByKeywords(fetchOutcome.v, keywords) = Returned(<<>>)
    /\ pc # "failed"
    /\ pc = "done" => scrapeOutcome = Returned(EmptySummary)

C8_Witness ==
  /\ pc = "done"
  /\ reply = Returned(Obj([jobs |-> Null]))
  /\ company.keywords = Arr(<<T_UI>>)
  /\ scrapeOutcome = Returned(EmptySummary)

\* C10: a run of scrapeCompany issues at most one listing call, only after
\* the URL was resolved; a failed resolution issues none; a failed listing
\* call is not retried and no filtering runs before the failure is returned.
C10_OneCallNoRetry ==
  /\ netCalls <= 1
  /\ netCalls = 1 =>
       /\ parseGreenhouseUrl(company.companyCareersPage).t = "object"
       /\ scraper = [companyToken |->
                       parseGreenhouseUrl(company.companyCareersPage).v.companyToken]
  /\ parseGreenhouseUrl(company.companyCareersPage).t = "null" =>
       /\ netCalls = 0
       /\ pc \in {"start", "failed"}
  /\ (pc \in {"fetched", "failed"} /\ netCalls = 1 /\ fetchOutcome.t = "throw") =>
       filterCalls = 0
  /\ (pc = "failed" /\ netCalls = 1) => scrapeOutcome = fetchOutcome

C10_Witness ==
  /\ pc = "failed"
  /\ netCalls = 1
  /\ filterCalls = 0
  /\ reply = Thrown(AxiosError("ECONNABORTED", Undefined))
  /\ scrapeOutcome = reply

====
